---- MODULE Spec2Model ----
(***************************************************************************)
(* Model of the application bootstrap in src-tauri/src/lib.rs (fn run).    *)
(*                                                                         *)
(* run() builds a tauri application: it registers the filesystem and the   *)
(* dialog plugin on the builder, installs a setup callback and calls       *)
(* Builder::run, whose Result is unwrapped with expect.  The setup         *)
(* callback registers the logging plugin when cfg!(debug_assertions),      *)
(* looks up the webview window "main" (unwrap), and, when compiled for     *)
(* macOS, sets the title bar style to Overlay (unwrap).                    *)
(*                                                                         *)
(* The compile-time configuration (debug, os) and the generated context    *)
(* (the declared window labels) are inputs chosen in Init.  The outcome of *)
(* every fallible framework call (a Result or an Option in the source) is  *)
(* a nondeterministic choice at the step that makes the call.  `trace` is  *)
(* a history variable: the framework calls made so far, in order.          *)
(***************************************************************************)
EXTENDS Naturals, Sequences, FiniteSets

VARIABLES
    debug,          \* cfg!(debug_assertions)
    os,             \* target_os of the build
    windows,        \* window labels declared by generate_context!()
    state,          \* lifecycle of the bootstrap
    pc,             \* position of the control thread inside run()
    plugins,        \* plugins attached to the application, in order
    logLevel,       \* LevelFilter of the attached logging plugin
    window,         \* result of get_webview_window("main")
    titleBarStyle,  \* style applied by set_title_bar_style
    failure,        \* the call whose failure ended the bootstrap
    trace           \* framework calls made so far, in order

vars == <<debug, os, windows, state, pc, plugins, logLevel, window,
          titleBarStyle, failure, trace>>

config == <<debug, os, windows>>

NoWindow == "NoWindow"

TargetOs == {"macos", "windows", "linux"}

WindowLabels == {"main", "splash"}

\* log::LevelFilter, ordered from least to most verbose
LevelRank ==
    [l \in {"Off", "Error", "Warn", "Info", "Debug", "Trace"} |->
        CASE l = "Off" -> 0
          [] l = "Error" -> 1
          [] l = "Warn" -> 2
          [] l = "Info" -> 3
          [] l = "Debug" -> 4
          [] l = "Trace" -> 5]

MsgLevels == {"Error", "Warn", "Info", "Debug", "Trace"}

\* a message of level l passes a logger whose filter is f
Enabled_(l, f) == LevelRank[l] <= LevelRank[f]

LogLevelFilter_Debug == "Debug"

\* .level(log::LevelFilter::Info)
LogLevelFilter == "Info"

MainLabel_Typo == "Main"

\* the label passed to get_webview_window
MainLabel == "main"

CfgDebugAssertions_Always == TRUE

\* cfg!(debug_assertions)
CfgDebugAssertions == debug

CfgTargetMacos_Always == TRUE

\* #[cfg(target_os = "macos")]
CfgTargetMacos == os = "macos"

\* Manager::get_webview_window: Some(label) when declared, else None
GetWebviewWindow(label) == IF label \in windows THEN label ELSE NoWindow

Count(x, s) == Cardinality({i \in DOMAIN s : s[i] = x})

Range(s) == {s[i] : i \in DOMAIN s}

IsPrefix(s, t) == Len(s) <= Len(t) /\ \A i \in DOMAIN s : s[i] = t[i]

Init ==
    /\ debug \in BOOLEAN
    /\ os \in TargetOs
    /\ windows \in SUBSET WindowLabels
    /\ state = "Uninitialized"
    /\ pc = "start"
    /\ plugins = <<>>
    /\ logLevel = "Off"
    /\ window = NoWindow
    /\ titleBarStyle = "Unset"
    /\ failure = "none"
    /\ trace = <<>>

Abort_Retry(at) ==
    /\ state' = "Uninitialized"
    /\ pc' = "start"
    /\ failure' = at

\* a panic (unwrap / expect) or an Err returned from setup: the process ends
Abort(at) ==
    /\ state' = "Aborted"
    /\ pc' = "done"
    /\ failure' = at

\* line 4-5: run() is entered and tauri::Builder::default() is created
Start ==
    /\ pc = "start"
    /\ state' = "Configuring"
    /\ pc' = "fs"
    /\ UNCHANGED <<config, plugins, logLevel, window, titleBarStyle, failure, trace>>

RegisterFs_Swapped ==
    /\ pc = "fs"
    /\ plugins' = Append(plugins, "dialog")
    /\ trace' = Append(trace, "dialog")
    /\ pc' = "dialog"
    /\ UNCHANGED <<config, state, logLevel, window, titleBarStyle, failure>>

\* line 6: .plugin(tauri_plugin_fs::init())
RegisterFs ==
    /\ pc = "fs"
    /\ plugins' = Append(plugins, "fs")
    /\ trace' = Append(trace, "fs")
    /\ pc' = "dialog"
    /\ UNCHANGED <<config, state, logLevel, window, titleBarStyle, failure>>

\* line 7: .plugin(tauri_plugin_dialog::init())
RegisterDialog ==
    /\ pc = "dialog"
    /\ plugins' = Append(plugins, "dialog")
    /\ trace' = Append(trace, "dialog")
    /\ pc' = "run"
    /\ UNCHANGED <<config, state, logLevel, window, titleBarStyle, failure>>

\* line 8, 29-30: .setup(..).run(context).expect(..): the framework either
\* fails to start (run returns Err, expect panics) or invokes the callback
Run ==
    /\ pc = "run"
    /\ \/ /\ pc' = "log"
          /\ UNCHANGED <<state, failure>>
       \/ Abort("run")
    /\ UNCHANGED <<config, plugins, logLevel, window, titleBarStyle, trace>>

SetupLog_IgnoreErr ==
    /\ pc = "log"
    /\ IF CfgDebugAssertions
         THEN /\ trace' = Append(trace, "log")
              /\ \/ /\ plugins' = Append(plugins, "log")
                    /\ logLevel' = LogLevelFilter
                    /\ pc' = "lookup"
                    /\ UNCHANGED <<state, failure>>
                 \/ /\ failure' = "log"
                    /\ pc' = "lookup"
                    /\ UNCHANGED <<state, plugins, logLevel>>
         ELSE /\ pc' = "lookup"
              /\ UNCHANGED <<state, plugins, logLevel, failure, trace>>
    /\ UNCHANGED <<config, window, titleBarStyle>>

\* line 9-15: if cfg!(debug_assertions) { app.handle().plugin(log)?; }
SetupLog ==
    /\ pc = "log"
    /\ IF CfgDebugAssertions
         THEN /\ trace' = Append(trace, "log")
              /\ \/ /\ plugins' = Append(plugins, "log")
                    /\ logLevel' = LogLevelFilter
                    /\ pc' = "lookup"
                    /\ UNCHANGED <<state, failure>>
                 \/ /\ Abort("log")
                    /\ UNCHANGED <<plugins, logLevel>>
         ELSE /\ pc' = "lookup"
              /\ UNCHANGED <<state, plugins, logLevel, failure, trace>>
    /\ UNCHANGED <<config, window, titleBarStyle>>

Lookup_Fallback ==
    /\ pc = "lookup"
    /\ trace' = Append(trace, "lookup")
    /\ IF windows # {}
         THEN /\ window' = IF MainLabel \in windows THEN MainLabel
                           ELSE CHOOSE w \in windows : TRUE
              /\ pc' = "style"
              /\ UNCHANGED <<state, failure>>
         ELSE /\ Abort("lookup")
              /\ UNCHANGED window
    /\ UNCHANGED <<config, plugins, logLevel, titleBarStyle>>

Lookup_RetryForever ==
    /\ pc = "lookup"
    /\ IF GetWebviewWindow(MainLabel) # NoWindow
         THEN /\ window' = GetWebviewWindow(MainLabel)
              /\ trace' = Append(trace, "lookup")
              /\ pc' = "style"
              /\ UNCHANGED <<state, failure>>
         ELSE UNCHANGED <<state, pc, failure, window, trace>>
    /\ UNCHANGED <<config, plugins, logLevel, titleBarStyle>>

\* line 18: let window = app.get_webview_window("main").unwrap();
Lookup ==
    /\ pc = "lookup"
    /\ trace' = Append(trace, "lookup")
    /\ IF GetWebviewWindow(MainLabel) # NoWindow
         THEN /\ window' = GetWebviewWindow(MainLabel)
              /\ pc' = "style"
              /\ UNCHANGED <<state, failure>>
         ELSE /\ Abort("lookup")
              /\ UNCHANGED window
    /\ UNCHANGED <<config, plugins, logLevel, titleBarStyle>>

Style_IgnoreErr ==
    /\ pc = "style"
    /\ IF CfgTargetMacos
         THEN /\ trace' = Append(trace, "style")
              /\ \/ /\ titleBarStyle' = "Overlay"
                    /\ pc' = "ok"
                    /\ UNCHANGED <<state, failure>>
                 \/ /\ failure' = "style"
                    /\ pc' = "ok"
                    /\ UNCHANGED <<state, titleBarStyle>>
         ELSE /\ pc' = "ok"
              /\ UNCHANGED <<state, titleBarStyle, failure, trace>>
    /\ UNCHANGED <<config, plugins, logLevel, window>>

\* line 21-25: #[cfg(target_os = "macos")]
\*             window.set_title_bar_style(TitleBarStyle::Overlay).unwrap();
Style ==
    /\ pc = "style"
    /\ IF CfgTargetMacos
         THEN /\ trace' = Append(trace, "style")
              /\ \/ /\ titleBarStyle' = "Overlay"
                    /\ pc' = "ok"
                    /\ UNCHANGED <<state, failure>>
                 \/ /\ Abort("style")
                    /\ UNCHANGED titleBarStyle
         ELSE /\ pc' = "ok"
              /\ UNCHANGED <<state, titleBarStyle, failure, trace>>
    /\ UNCHANGED <<config, plugins, logLevel, window>>

\* line 27: Ok(()) -- setup succeeded, the event loop takes over
SetupOk ==
    /\ pc = "ok"
    /\ state' = "Running"
    /\ pc' = "loop"
    /\ UNCHANGED <<config, plugins, logLevel, window, titleBarStyle, failure, trace>>

\* line 29-31: run returns Ok(()) at application shutdown and run() returns
Shutdown ==
    /\ pc = "loop"
    /\ state' = "Terminated"
    /\ pc' = "done"
    /\ UNCHANGED <<config, plugins, logLevel, window, titleBarStyle, failure, trace>>

\* the steps of the bootstrap thread up to the hand-over to the event loop
Bootstrap ==
    \/ Start
    \/ RegisterFs
    \/ RegisterDialog
    \/ Run
    \/ SetupLog
    \/ Lookup
    \/ Style
    \/ SetupOk

Next ==
    \/ Start
    \/ RegisterFs
    \/ RegisterDialog
    \/ Run
    \/ SetupLog
    \/ Lookup
    \/ Style
    \/ SetupOk
    \/ Shutdown

Spec == Init /\ [][Next]_vars

\* the bootstrap runs on one thread that is never suspended for ever; the
\* event loop may run for ever, so Shutdown carries no fairness
FairSpec == Spec /\ WF_vars(Bootstrap)

TypeOK ==
    /\ debug \in BOOLEAN
    /\ os \in TargetOs
    /\ windows \subseteq WindowLabels
    /\ state \in {"Uninitialized", "Configuring", "Running", "Aborted", "Terminated"}
    /\ pc \in {"start", "fs", "dialog", "run", "log", "lookup", "style", "ok", "loop", "done"}
    /\ logLevel \in DOMAIN LevelRank
    /\ window \in WindowLabels \cup {NoWindow}
    /\ titleBarStyle \in {"Unset", "Overlay"}
    /\ failure \in {"none", "run", "log", "lookup", "style"}

(***************************************************************************)
(* Properties                                                              *)
(***************************************************************************)

HasMain == "main" \in windows

Started == state # "Uninitialized"

\* C1 (as stated): without a window "main" the bootstrap never runs and
\* every abort happens at the window lookup.
C1_AbortsAtLookup ==
    ~HasMain =>
        /\ state \notin {"Running", "Terminated"}
        /\ state = "Aborted" => failure = "lookup"

\* C1 (amended): without a window "main" the bootstrap never reaches
\* Running and eventually aborts, no later than the window lookup: the
\* abort is at the lookup unless the framework failed to start or the
\* logging registration failed first.  The lookup is made at most once, no
\* window is ever obtained and the styling call is never made.
C1_AbortsByLookup ==
    /\ [](~HasMain =>
            /\ state \notin {"Running", "Terminated"}
            /\ failure \in {"none", "run", "log", "lookup"}
            /\ window = NoWindow
            /\ Count("lookup", trace) <= 1
            /\ "style" \notin Range(trace)
            /\ pc \notin {"style", "ok", "loop"})
    /\ ((~HasMain /\ state = "Configuring") ~> (state = "Aborted"))

C1_Witness == ~HasMain /\ state = "Aborted" /\ failure = "lookup"

\* C2 (as stated): with a window "main" declared the bootstrap never
\* enters Aborted.
C2_NeverAborts == HasMain => state # "Aborted"

\* C2 (amended): with a window "main" declared the window lookup never
\* fails, so the bootstrap aborts only when the framework fails to start,
\* the logging registration fails or the styling call fails; otherwise it
\* reaches Running.
C2_RunsUnlessCallFails ==
    /\ [](HasMain =>
            /\ failure # "lookup"
            /\ state = "Aborted" => failure \in {"run", "log", "style"})
    /\ ((HasMain /\ state = "Configuring") ~>
            (state = "Running" \/ failure \in {"run", "log", "style"}))

C2_Witness == HasMain /\ state = "Running" /\ failure = "none"

\* C3: when the registration of the logging plugin fails, setup ends at
\* once: the bootstrap is aborted, the window lookup and the styling call
\* were never made and the logging plugin is not attached.
C3_LogFailureAborts ==
    failure = "log" =>
        /\ debug
        /\ state = "Aborted"
        /\ pc = "done"
        /\ window = NoWindow
        /\ titleBarStyle = "Unset"
        /\ "lookup" \notin Range(trace)
        /\ "style" \notin Range(trace)
        /\ "log" \notin Range(plugins)

C3_Witness == failure = "log" /\ state = "Aborted"

\* C4: in a debug build the logging plugin is never registered twice, and
\* a bootstrap that completed has it attached exactly once with the filter
\* Info, which passes Error, Warn and Info and rejects Debug and Trace.
C4_LogOnceAtInfo ==
    debug =>
        /\ Count("log", trace) <= 1
        /\ Count("log", plugins) <= 1
        /\ state \in {"Running", "Terminated"} =>
              /\ Count("log", trace) = 1
              /\ Count("log", plugins) = 1
              /\ logLevel = "Info"
              /\ {l \in MsgLevels : Enabled_(l, logLevel)} = {"Error", "Warn", "Info"}

C4_Witness == debug /\ state = "Running" /\ Count("log", plugins) = 1

\* C5: in a release build the attached plugins are always among
\* filesystem and dialog; the logging plugin is never registered.
C5_ReleaseNoLog ==
    ~debug =>
        /\ Range(plugins) \subseteq {"fs", "dialog"}
        /\ "log" \notin Range(trace)
        /\ logLevel = "Off"

C5_Witness == ~debug /\ state = "Running" /\ Range(plugins) = {"fs", "dialog"}

\* C6: on macOS a bootstrap that reached Running made the styling call
\* exactly once and the style is Overlay; on any other target the styling
\* call is never made.
C6_StyleOnlyOnMacos ==
    /\ (os = "macos" /\ state \in {"Running", "Terminated"}) =>
          /\ Count("style", trace) = 1
          /\ titleBarStyle = "Overlay"
    /\ os = "macos" => Count("style", trace) <= 1
    /\ os # "macos" =>
          /\ Count("style", trace) = 0
          /\ titleBarStyle = "Unset"

C6_Witness == os = "macos" /\ state = "Running" /\ titleBarStyle = "Overlay"

ExpectedOrder ==
    <<"fs", "dialog">>
        \o (IF debug THEN <<"log">> ELSE <<>>)
        \o <<"lookup">>
        \o (IF os = "macos" THEN <<"style">> ELSE <<>>)

\* C7: the calls made so far are always a prefix of the fixed order
\* filesystem, dialog, (debug) logging, window lookup, (macOS) styling, and
\* a call is made only after every earlier one has succeeded.
C7_FixedOrder ==
    /\ IsPrefix(trace, ExpectedOrder)
    /\ failure # "none" => pc = "done"
    /\ "lookup" \in Range(trace) =>
          /\ SubSeq(plugins, 1, 2) = <<"fs", "dialog">>
          /\ debug => plugins = <<"fs", "dialog", "log">>
    /\ "style" \in Range(trace) => window = "main"

C7_Witness == trace = <<"fs", "dialog", "log", "lookup", "style">>

Transitions ==
    { <<"Uninitialized", "Configuring">>,
      <<"Configuring", "Running">>,
      <<"Configuring", "Aborted">>,
      <<"Running", "Terminated">> }

\* C8: the lifecycle only takes the transitions Uninitialized ->
\* Configuring, Configuring -> Running, Configuring -> Aborted and Running
\* -> Terminated; Aborted and Terminated are never left and Configuring is
\* entered only from Uninitialized, which is never entered again.
C8_Lifecycle ==
    [][ /\ state' # state => <<state, state'>> \in Transitions
        /\ state \in {"Aborted", "Terminated"} => state' = state
        /\ state' = "Uninitialized" => state = "Uninitialized" ]_vars

C8_Witness == state = "Terminated"

\* C9: a bootstrap that is Configuring eventually is Running or Aborted.
C9_LeavesConfiguring ==
    (state = "Configuring") ~> (state \in {"Running", "Aborted"})

C9_Witness == state = "Aborted" /\ failure = "style"

\* C10: whenever the bootstrap is Running no call has failed, filesystem
\* and dialog are attached, the main window was found, the logging plugin
\* is attached exactly in a debug build and the style is Overlay exactly on
\* macOS.
C10_RunningIsConfigured ==
    state = "Running" =>
        /\ failure = "none"
        /\ {"fs", "dialog"} \subseteq Range(plugins)
        /\ window = "main"
        /\ "log" \in Range(plugins) <=> debug
        /\ titleBarStyle = "Overlay" <=> os = "macos"

C10_Witness == state = "Running" /\ debug /\ os = "macos"

====
